---- MODULE Spec2Model ----
(***************************************************************************)
(* Vybe recommendation core: music analysis, context interpretation and   *)
(* the individual-preference recommendation pipeline.                     *)
(*                                                                        *)
(* Numbers.  JavaScript numbers are modelled in fixed point.  Audio       *)
(* features and context weights are counted in tenths (Unit = 1.0), tempo *)
(* in BPM, loudness in dB.  Similarities and affinities are counted in    *)
(* hundredths (Scale = 1.0) and blended scores in thousandths.  A         *)
(* quotient is rounded down to the unit of its result; the model's inputs *)
(* are drawn from values whose normalised form is a whole number of       *)
(* tenths, so that the only rounding is that of the final quotient.       *)
(* NaN stands for IEEE NaN and for `undefined`, which behave alike in     *)
(* every arithmetic operation, comparison and `||` of the modelled code.  *)
(***************************************************************************)
EXTENDS Integers, Sequences, FiniteSets, TLC

Unit == 10
Scale == 100
NaN == -1000000

IsNaN(x) == x = NaN

\* JavaScript `x || d`: 0, NaN and undefined are falsy
OrDefault(x, d) == IF x = NaN \/ x = 0 THEN d ELSE x

Mul(a, b) == IF a = NaN \/ b = NaN THEN NaN ELSE a * b

Add(a, b) == IF a = NaN \/ b = NaN THEN NaN ELSE a + b

\* a / b for a constant b > 0, rounded down
DivBy(a, b) == IF a = NaN THEN NaN ELSE a \div b

\* a > b in JavaScript: false when either side is NaN
Gt(a, b) == a # NaN /\ b # NaN /\ a > b

mathMax(a, b) == IF a = NaN \/ b = NaN THEN NaN ELSE IF a >= b THEN a ELSE b

mathMin(a, b) == IF a = NaN \/ b = NaN THEN NaN ELSE IF a <= b THEN a ELSE b

clamp(value, min, max) == mathMin(mathMax(value, min), max)

Min(a, b) == IF a <= b THEN a ELSE b

RECURSIVE SumSeq(_)
\* left-to-right `+=` accumulation; NaN is absorbing
SumSeq(s) == IF Len(s) = 0 THEN 0 ELSE Add(SumSeq(SubSeq(s, 1, Len(s) - 1)), s[Len(s)])

RECURSIVE FracLeq(_, _, _, _)
\* a/b <= c/d for a, c >= 0 and b, d > 0, by continued fractions (no products)
FracLeq(a, b, c, d) ==
  LET qa == a \div b
      qc == c \div d
      ra == a % b
      rc == c % d
  IN  IF qa # qc THEN qa < qc
      ELSE IF ra = 0 THEN TRUE
      ELSE IF rc = 0 THEN FALSE
      ELSE FracLeq(d, rc, b, ra)

RECURSIVE CosineSearch(_, _, _, _, _)
\* the largest s in lo..hi with (s/Scale)^2 <= dot^2 / (n1 * n2)
CosineSearch(lo, hi, dot, n1, n2) ==
  IF lo = hi THEN lo
  ELSE LET mid == (lo + hi + 1) \div 2
       IN  IF FracLeq(mid * mid * n1, Scale * Scale * dot, dot, n2)
           THEN CosineSearch(mid, hi, dot, n1, n2)
           ELSE CosineSearch(lo, mid - 1, dot, n1, n2)

\* dotProduct / (Math.sqrt(norm1) * Math.sqrt(norm2)), in hundredths
CosineQuotient(dot, n1, n2) ==
  IF dot = NaN \/ n1 = NaN \/ n2 = NaN THEN NaN
  ELSE IF n1 = 0 \/ n2 = 0
       THEN (IF dot = 0 THEN NaN ELSE IF dot > 0 THEN 2 * Scale ELSE 0 - Scale)
  ELSE IF dot <= 0 THEN (IF dot = 0 THEN 0 ELSE 0 - 1)
  ELSE CosineSearch(0, Scale, dot, n1, n2)

(***************************************************************************)
(* MusicAnalysisService                                                   *)
(***************************************************************************)

\* Object.entries(featureWeights) order
FeatureOrder ==
  << "valence", "energy", "danceability", "acousticness", "instrumentalness",
     "liveness", "speechiness", "tempo", "loudness", "mode", "key" >>

\* contextWeights argument left out of the call
NoWeights ==
  [valence |-> NaN, energy |-> NaN, danceability |-> NaN, acousticness |-> NaN,
   tempoModifier |-> NaN]

\* an object without any feature field ({})
EmptyFeatures ==
  [valence |-> NaN, energy |-> NaN, danceability |-> NaN, acousticness |-> NaN,
   instrumentalness |-> NaN, liveness |-> NaN, speechiness |-> NaN, tempo |-> NaN,
   loudness |-> NaN, mode |-> NaN, key |-> NaN, time_signature |-> NaN]

normalizeFeatures(features) ==
  [valence |-> features.valence,
   energy |-> features.energy,
   danceability |-> features.danceability,
   acousticness |-> features.acousticness,
   instrumentalness |-> features.instrumentalness,
   liveness |-> features.liveness,
   speechiness |-> features.speechiness,
   tempo |-> DivBy(Mul(features.tempo, Unit), 200),
   loudness |-> DivBy(Mul(Add(features.loudness, 60), Unit), 60),
   mode |-> Mul(features.mode, Unit),
   key |-> DivBy(Mul(features.key, Unit), 11)]

featureWeights(contextWeights) ==
  [valence |-> OrDefault(contextWeights.valence, 8),
   energy |-> OrDefault(contextWeights.energy, 8),
   danceability |-> OrDefault(contextWeights.danceability, 7),
   acousticness |-> OrDefault(contextWeights.acousticness, 6),
   instrumentalness |-> 4,
   liveness |-> 3,
   speechiness |-> 3,
   tempo |-> 5,
   loudness |-> 2,
   mode |-> 3,
   key |-> 2]

\* as similarityTerms, but the weight is left off the second operand
similarityTermsOneSided(profile1, profile2, contextWeights) ==
  LET w == featureWeights(contextWeights)
      features1 == normalizeFeatures(profile1)
      features2 == normalizeFeatures(profile2)
      val1 == [i \in 1..Len(FeatureOrder) |-> Mul(features1[FeatureOrder[i]], w[FeatureOrder[i]])]
      val2 == [i \in 1..Len(FeatureOrder) |-> features2[FeatureOrder[i]]]
  IN  [dotProduct |-> SumSeq([i \in 1..Len(FeatureOrder) |-> Mul(val1[i], val2[i])]),
       norm1 |-> SumSeq([i \in 1..Len(FeatureOrder) |-> Mul(val1[i], val1[i])]),
       norm2 |-> SumSeq([i \in 1..Len(FeatureOrder) |-> Mul(val2[i], val2[i])])]

\* the three accumulators of the loop over Object.entries(featureWeights)
similarityTerms(profile1, profile2, contextWeights) ==
  LET w == featureWeights(contextWeights)
      features1 == normalizeFeatures(profile1)
      features2 == normalizeFeatures(profile2)
      val1 == [i \in 1..Len(FeatureOrder) |-> Mul(features1[FeatureOrder[i]], w[FeatureOrder[i]])]
      val2 == [i \in 1..Len(FeatureOrder) |-> Mul(features2[FeatureOrder[i]], w[FeatureOrder[i]])]
  IN  [dotProduct |-> SumSeq([i \in 1..Len(FeatureOrder) |-> Mul(val1[i], val2[i])]),
       norm1 |-> SumSeq([i \in 1..Len(FeatureOrder) |-> Mul(val1[i], val1[i])]),
       norm2 |-> SumSeq([i \in 1..Len(FeatureOrder) |-> Mul(val2[i], val2[i])])]

calculateSimilarity(profile1, profile2, contextWeights) ==
  LET t == similarityTerms(profile1, profile2, contextWeights)
      similarity == CosineQuotient(t.dotProduct, t.norm1, t.norm2)
  IN  clamp(similarity, 0, Scale)

\* Math.sqrt of a non-negative number, rounded down
mathSqrt(x) ==
  IF x = NaN THEN NaN ELSE CHOOSE r \in 0..x : r * r <= x /\ (r + 1) * (r + 1) > x

KeyFeatures == << "valence", "energy", "danceability", "acousticness" >>

\* the distance over the four key features, in hundredths
calculateEuclideanDistance(profile1, profile2) ==
  LET features1 == normalizeFeatures(profile1)
      features2 == normalizeFeatures(profile2)
      squaredDiff(feature) ==
        LET diff == Add(features1[feature], Mul(features2[feature], -1))
        IN  Mul(diff, diff)
      sumSquaredDiffs ==
        Add(Add(squaredDiff(KeyFeatures[1]), squaredDiff(KeyFeatures[2])),
            Add(squaredDiff(KeyFeatures[3]), squaredDiff(KeyFeatures[4])))
  IN  mathSqrt(Mul(sumSquaredDiffs, (Scale * Scale) \div (Unit * Unit)))

\* as calculateConfidence, but without the floor at 0
calculateConfidenceUnclamped(profile, features) ==
  Add(Scale, Mul(calculateEuclideanDistance(profile, features), -1))

\* Math.max(0, 1 - distance)
calculateConfidence(profile, features) ==
  LET distance == calculateEuclideanDistance(profile, features)
  IN  mathMax(0, Add(Scale, Mul(distance, -1)))

\* as perturb, with the weight taken in full: value * (1 + weight)
perturbInFull(value, weight) == DivBy(Mul(value, Add(Unit, weight)), Unit)

\* value * (1 + weight * 0.5)
perturb(value, weight) == DivBy(Mul(value, Add(2 * Unit, weight)), 2 * Unit)

applyContextWeights(profile, contextWeights) ==
  [valence |-> clamp(perturb(profile.valence, contextWeights.valence), 0, Unit),
   energy |-> clamp(perturb(profile.energy, contextWeights.energy), 0, Unit),
   danceability |-> clamp(perturb(profile.danceability, contextWeights.danceability), 0, Unit),
   acousticness |-> clamp(perturb(profile.acousticness, contextWeights.acousticness), 0, Unit),
   instrumentalness |-> profile.instrumentalness,
   liveness |-> profile.liveness,
   speechiness |-> profile.speechiness,
   tempo |-> DivBy(Mul(profile.tempo, contextWeights.tempoModifier), Unit),
   loudness |-> profile.loudness,
   mode |-> profile.mode,
   key |-> profile.key,
   timeSignature |-> profile.timeSignature,
   weights |-> contextWeights]

\* values.reduce((sum, val) => sum + val, 0) / values.length
average(values) ==
  IF Len(values) = 0 THEN NaN ELSE DivBy(SumSeq(values), Len(values))

\* number of occurrences of v in values
frequency(values, v) == Cardinality({i \in 1..Len(values) : values[i] = v})

\* index of the first occurrence of values[i]: the Map's insertion order
firstIndex(values, i) == CHOOSE j \in 1..i : values[j] = values[i] /\ \A k \in 1..(j - 1) : values[k] # values[i]

mode(values) ==
  IF Len(values) = 0 THEN 1
  ELSE LET keys == {i \in 1..Len(values) : firstIndex(values, i) = i}
           best == CHOOSE i \in keys :
                     \A j \in keys :
                       \/ frequency(values, values[i]) > frequency(values, values[j])
                       \/ (frequency(values, values[i]) = frequency(values, values[j]) /\ i <= j)
       IN  OrDefault(values[best], 1)

\* throw new Error(message): what a call that throws returns
Thrown(message) == [error |-> "Error", message |-> message]

\* whether the value is a thrown error and not a result
IsThrown(value) == "error" \in DOMAIN value

\* the profile object of createReferenceProfile
referenceProfileOf(audioFeatures) ==
  [valence |-> average([i \in 1..Len(audioFeatures) |-> audioFeatures[i].valence]),
   energy |-> average([i \in 1..Len(audioFeatures) |-> audioFeatures[i].energy]),
   danceability |-> average([i \in 1..Len(audioFeatures) |-> audioFeatures[i].danceability]),
   acousticness |-> average([i \in 1..Len(audioFeatures) |-> audioFeatures[i].acousticness]),
   instrumentalness |-> average([i \in 1..Len(audioFeatures) |-> audioFeatures[i].instrumentalness]),
   liveness |-> average([i \in 1..Len(audioFeatures) |-> audioFeatures[i].liveness]),
   speechiness |-> average([i \in 1..Len(audioFeatures) |-> audioFeatures[i].speechiness]),
   tempo |-> average([i \in 1..Len(audioFeatures) |-> audioFeatures[i].tempo]),
   loudness |-> average([i \in 1..Len(audioFeatures) |-> audioFeatures[i].loudness]),
   mode |-> mode([i \in 1..Len(audioFeatures) |-> audioFeatures[i].mode]),
   key |-> mode([i \in 1..Len(audioFeatures) |-> audioFeatures[i].key]),
   timeSignature |-> mode([i \in 1..Len(audioFeatures) |-> audioFeatures[i].time_signature])]

\* as createReferenceProfile, without the check for an empty array
createReferenceProfileUnguarded(audioFeatures) == referenceProfileOf(audioFeatures)

createReferenceProfile(audioFeatures) ==
  IF Len(audioFeatures) = 0 THEN Thrown("At least one audio feature set is required")
  ELSE referenceProfileOf(audioFeatures)

(***************************************************************************)
(* RecommendationEngineService: scoring, ranking and diversification      *)
(***************************************************************************)

TimeScale == 10000
DecayPerDay == 9672

RECURSIVE expDecay(_)
\* Math.exp(-daysSince / 30) in units of 1/TimeScale, one day at a time
expDecay(daysSince) ==
  IF daysSince <= 0 THEN TimeScale
  ELSE (expDecay(daysSince - 1) * DecayPerDay) \div TimeScale

\* timestamps and the clock are counted in days
calculateTimeWeight(timestamp, clock) == expDecay(clock - timestamp)

\* the positive events of the history, in order
positiveFeedback(feedbackHistory) ==
  SelectSeq(feedbackHistory, LAMBDA feedback : feedback.feedbackScore > 0)

\* as calculatePersonalPreference, without the cold-start return and the
\* zero-weight fallback
calculatePersonalPreferenceUnguarded(trackFeatures, userProfile, clock) ==
  LET liked == positiveFeedback(userProfile.feedbackHistory)
      feedbackWeight(i) == liked[i].feedbackScore * calculateTimeWeight(liked[i].timestamp, clock)
      totalScore == SumSeq([i \in 1..Len(liked) |->
                      Mul(calculateSimilarity(trackFeatures, liked[i].audioFeatures, NoWeights),
                          feedbackWeight(i))])
      weightSum == SumSeq([i \in 1..Len(liked) |-> feedbackWeight(i)])
  IN  IF weightSum > 0 THEN DivBy(totalScore, weightSum) ELSE NaN

\* as calculatePersonalPreference, with the weighted sum not divided by the
\* sum of the weights
calculatePersonalPreferenceUnnormalised(trackFeatures, userProfile, clock) ==
  IF Len(userProfile.feedbackHistory) = 0 THEN Scale \div 2
  ELSE LET liked == positiveFeedback(userProfile.feedbackHistory)
           feedbackWeight(i) == liked[i].feedbackScore * calculateTimeWeight(liked[i].timestamp, clock)
           totalScore == SumSeq([i \in 1..Len(liked) |->
                           Mul(calculateSimilarity(trackFeatures, liked[i].audioFeatures, NoWeights),
                               feedbackWeight(i))])
           weightSum == SumSeq([i \in 1..Len(liked) |-> feedbackWeight(i)])
       IN  IF weightSum > 0 THEN DivBy(totalScore, TimeScale) ELSE Scale \div 2

\* as calculatePersonalPreference, with every event counted, whatever its
\* feedbackScore
calculatePersonalPreferenceAllFeedback(trackFeatures, userProfile, clock) ==
  IF Len(userProfile.feedbackHistory) = 0 THEN Scale \div 2
  ELSE LET all == userProfile.feedbackHistory
           feedbackWeight(i) == all[i].feedbackScore * calculateTimeWeight(all[i].timestamp, clock)
           totalScore == SumSeq([i \in 1..Len(all) |->
                           Mul(calculateSimilarity(trackFeatures, all[i].audioFeatures, NoWeights),
                               feedbackWeight(i))])
           weightSum == SumSeq([i \in 1..Len(all) |-> feedbackWeight(i)])
       IN  IF weightSum > 0 THEN DivBy(totalScore, weightSum) ELSE Scale \div 2

calculatePersonalPreference(trackFeatures, userProfile, clock) ==
  IF Len(userProfile.feedbackHistory) = 0 THEN Scale \div 2
  ELSE LET liked == positiveFeedback(userProfile.feedbackHistory)
           feedbackWeight(i) == liked[i].feedbackScore * calculateTimeWeight(liked[i].timestamp, clock)
           totalScore == SumSeq([i \in 1..Len(liked) |->
                           Mul(calculateSimilarity(trackFeatures, liked[i].audioFeatures, NoWeights),
                               feedbackWeight(i))])
           weightSum == SumSeq([i \in 1..Len(liked) |-> feedbackWeight(i)])
       IN  IF weightSum > 0 THEN DivBy(totalScore, weightSum) ELSE Scale \div 2

\* as finalScore, with the two factors exchanged
finalScoreSwapped(similarity, personalPreference) ==
  Add(Mul(similarity, 3), Mul(personalPreference, 7))

\* (similarity * 0.7) + (personalPreference * 0.3), in thousandths
finalScore(similarity, personalPreference) == Add(Mul(similarity, 7), Mul(personalPreference, 3))

\* the comparator (a, b) => b.confidence - a.confidence; a NaN result counts as 0
compareFn(a, b) ==
  IF a.confidence = NaN \/ b.confidence = NaN THEN 0 ELSE b.confidence - a.confidence

RECURSIVE insertSorted(_, _)
\* x goes behind every element that does not have to follow it
insertSorted(sorted, x) ==
  IF Len(sorted) = 0 THEN << x >>
  ELSE IF compareFn(sorted[Len(sorted)], x) > 0
       THEN Append(insertSorted(SubSeq(sorted, 1, Len(sorted) - 1), x), sorted[Len(sorted)])
       ELSE Append(sorted, x)

RECURSIVE stableSort(_)
stableSort(s) ==
  IF Len(s) = 0 THEN << >>
  ELSE insertSorted(stableSort(SubSeq(s, 1, Len(s) - 1)), s[Len(s)])

\* the comparator is a consistent ordering of the elements of s
consistentComparator(s) ==
  \A i, j, k \in 1..Len(s) :
    /\ (compareFn(s[i], s[j]) = 0 /\ compareFn(s[j], s[k]) = 0) => compareFn(s[i], s[k]) = 0
    /\ (compareFn(s[i], s[j]) = 0 /\ compareFn(s[j], s[k]) < 0) => compareFn(s[i], s[k]) < 0
    /\ (compareFn(s[i], s[j]) < 0 /\ compareFn(s[j], s[k]) = 0) => compareFn(s[i], s[k]) < 0

permutationsOf(s) ==
  {[i \in 1..Len(s) |-> s[p[i]]] :
     p \in {q \in [1..Len(s) -> 1..Len(s)] : \A a, b \in 1..Len(s) : q[a] = q[b] => a = b}}

\* Array.prototype.sort: stable for a consistent comparator, otherwise the
\* order is implementation-defined
arraySort(s) ==
  IF consistentComparator(s) THEN {stableSort(s)} ELSE permutationsOf(s)

\* the results of rankTracksBySimilarity before the sort
similarityResults(targetProfile, candidateFeatures) ==
  [i \in 1..Len(candidateFeatures) |->
     [trackId |-> candidateFeatures[i].trackId,
      similarity |-> calculateSimilarity(targetProfile, candidateFeatures[i].features,
                                         targetProfile.weights),
      confidence |-> calculateConfidence(targetProfile, candidateFeatures[i].features)]]

\* the set of results the sort by similarity (descending) may return; the
\* sort is arraySort with the similarity as its key
rankTracksBySimilarity(targetProfile, candidateFeatures) ==
  LET results == similarityResults(targetProfile, candidateFeatures)
      keyed == [i \in 1..Len(results) |->
                  [confidence |-> results[i].similarity, result |-> results[i]]]
  IN  {[i \in 1..Len(sorted) |-> sorted[i].result] : sorted \in arraySort(keyed)}

\* the recommendations pushed by the loop: one per candidate whose track
\* details could be fetched (getTrack threw for the ids in failedTracks)
scoreCandidates(candidates, weightedProfile, userProfile, clock, details, failedTracks) ==
  LET scored(c) ==
        LET similarity == calculateSimilarity(weightedProfile, c.features, weightedProfile.weights)
            personalPreference == calculatePersonalPreference(c.features, userProfile, clock)
        IN  [trackId |-> c.trackId,
             artists |-> details[c.trackId],
             audioFeatures |-> c.features,
             confidence |-> finalScore(similarity, personalPreference),
             reasoning |-> [similarity |-> similarity, personalPreference |-> personalPreference]]
      fetched == SelectSeq(candidates, LAMBDA c : c.trackId \notin failedTracks)
  IN  [i \in 1..Len(fetched) |-> scored(fetched[i])]

\* the set of results the sort may return
rankByIndividualPreference(candidates, weightedProfile, userProfile, clock, details, failedTracks) ==
  arraySort(scoreCandidates(candidates, weightedProfile, userProfile, clock, details, failedTracks))

minSimilarityThreshold == 85

\* rec.artists[0]; "" stands for an undefined or empty name (both falsy)
mainArtistOf(rec) == IF Len(rec.artists) = 0 THEN "" ELSE rec.artists[1]

\* as tooSimilar, but compared with the last selected item only
tooSimilarToLast(rec, diversified) ==
  /\ Len(diversified) > 0
  /\ Gt(calculateSimilarity(rec.audioFeatures, diversified[Len(diversified)].audioFeatures,
                            NoWeights),
        minSimilarityThreshold)

tooSimilar(rec, diversified) ==
  \E i \in 1..Len(diversified) :
    Gt(calculateSimilarity(rec.audioFeatures, diversified[i].audioFeatures, NoWeights),
       minSimilarityThreshold)

RECURSIVE firstPass(_, _, _, _, _)
\* the greedy loop from position i on; returns the selected recommendations
firstPass(recommendations, limit, i, diversified, usedArtists) ==
  IF i > Len(recommendations) \/ Len(diversified) >= limit THEN diversified
  ELSE LET rec == recommendations[i]
           mainArtist == mainArtistOf(rec)
       IN  IF mainArtist # "" /\ mainArtist \in usedArtists /\ 2 * Cardinality(usedArtists) < limit
           THEN firstPass(recommendations, limit, i + 1, diversified, usedArtists)
           ELSE IF tooSimilar(rec, diversified)
           THEN firstPass(recommendations, limit, i + 1, diversified, usedArtists)
           ELSE firstPass(recommendations, limit, i + 1, Append(diversified, rec),
                          IF mainArtist # "" THEN usedArtists \cup {mainArtist} ELSE usedArtists)

RECURSIVE fillPass(_, _, _, _)
\* the loop that fills the remaining slots from position i on
fillPass(recommendations, limit, i, diversified) ==
  IF i > Len(recommendations) \/ Len(diversified) >= limit THEN diversified
  ELSE IF \E k \in 1..Len(diversified) : diversified[k].trackId = recommendations[i].trackId
       THEN fillPass(recommendations, limit, i + 1, diversified)
       ELSE fillPass(recommendations, limit, i + 1, Append(diversified, recommendations[i]))

\* as diversifyRecommendations, with a fill loop that does not look whether
\* the item is already selected
diversifyRecommendationsFillTwice(recommendations, limit) ==
  LET diversified == firstPass(recommendations, limit, 1, << >>, {})
      missing == limit - Len(diversified)
  IN  IF missing > 0
      THEN diversified \o SubSeq(recommendations, 1, Min(missing, Len(recommendations)))
      ELSE diversified

\* as diversifyRecommendations, without the loop that fills the remaining slots
diversifyRecommendationsNoFill(recommendations, limit) ==
  firstPass(recommendations, limit, 1, << >>, {})

diversifyRecommendations(recommendations, limit) ==
  LET diversified == firstPass(recommendations, limit, 1, << >>, {})
  IN  IF Len(diversified) < limit
      THEN fillPass(recommendations, limit, 1, diversified)
      ELSE diversified


(***************************************************************************)
(* ContextProcessorService: ingestion of the interpreter's response       *)
(***************************************************************************)

\* A JSON value met where a number is expected.  `value` is what ToNumber
\* makes of it: Number("0.7") is 0.7, Number("high") is NaN, Number(null) is 0.
JsonNumber(n) == [type |-> "number", value |-> n]

JsonString(n) == [type |-> "string", value |-> n]

JsonNull == [type |-> "null", value |-> 0]

JsonMissing == [type |-> "undefined", value |-> NaN]

\* truthiness of a JSON value: a non-empty string is truthy whatever it says
truthy(raw) ==
  \/ raw.type = "string"
  \/ (raw.type = "number" /\ raw.value # 0 /\ raw.value # NaN)

\* this.clamp(raw || fallback, min, max)
clampOrDefault(raw, fallback, min, max) ==
  clamp(IF truthy(raw) THEN raw.value ELSE fallback, min, max)

\* text || fallback for a string field; "" stands for a missing field
textOrDefault(text, fallback) == IF text = "" THEN fallback ELSE text

defaultAnalysis ==
  [weights |-> [valence |-> Unit \div 2, energy |-> Unit \div 2, danceability |-> Unit \div 2,
                acousticness |-> Unit \div 2, tempoModifier |-> Unit],
   reasoning |-> "Default weights used due to parsing error",
   confidence |-> 3,
   musicGenres |-> << "unknown" >>,
   mood |-> "neutral",
   energy |-> "medium",
   socialContext |-> "unknown",
   activityType |-> "listening"]

\* response.hasJson: the text holds a {...} that JSON.parse accepts;
\* response.weightsIsObject: parsed.weights is truthy and an object
parseClaudeResponse(response) ==
  IF ~response.hasJson \/ ~response.weightsIsObject THEN defaultAnalysis
  ELSE [weights |->
          [valence |-> clampOrDefault(response.weights.valence, Unit \div 2, 0, Unit),
           energy |-> clampOrDefault(response.weights.energy, Unit \div 2, 0, Unit),
           danceability |-> clampOrDefault(response.weights.danceability, Unit \div 2, 0, Unit),
           acousticness |-> clampOrDefault(response.weights.acousticness, Unit \div 2, 0, Unit),
           tempoModifier |-> clampOrDefault(response.weights.tempoModifier, Unit, Unit \div 2, 2 * Unit)],
        reasoning |-> textOrDefault(response.reasoning, "Context analysis completed"),
        confidence |-> clampOrDefault(response.confidence, 8, 0, Unit),
        musicGenres |-> IF response.genresIsArray THEN response.musicGenres ELSE << "unknown" >>,
        mood |-> textOrDefault(response.mood, "neutral"),
        energy |-> textOrDefault(response.energy, "medium"),
        socialContext |-> textOrDefault(response.socialContext, "unknown"),
        activityType |-> textOrDefault(response.activityType, "listening")]


(***************************************************************************)
(* DatabaseService, ContextProcessorService.interpretContext and the      *)
(* recommendation pipeline                                                *)
(***************************************************************************)

\* hash = ToInt32(((hash << 5) - hash) + char), on 16-bit halves so that no
\* intermediate value leaves the 32-bit range
hashStep(hash, char) ==
  LET hi == hash \div 65536
      lo == hash % 65536
      lo2 == 31 * lo + char
      hi2 == 31 * hi + (lo2 \div 65536)
  IN  (((hi2 + 32768) % 65536) - 32768) * 65536 + (lo2 % 65536)

RECURSIVE hashString(_)
\* strings are sequences of char codes
hashString(str) ==
  IF Len(str) = 0 THEN 0
  ELSE hashStep(hashString(SubSeq(str, 1, Len(str) - 1)), str[Len(str)])

RECURSIVE trim(_)
\* String.prototype.trim for strings whose only white space is the blank (32)
trim(str) ==
  IF Len(str) = 0 THEN str
  ELSE IF str[1] = 32 THEN trim(SubSeq(str, 2, Len(str)))
  ELSE IF str[Len(str)] = 32 THEN trim(SubSeq(str, 1, Len(str) - 1))
  ELSE str

\* JSON.parse(JSON.stringify(analysis)): a NaN weight is written as null,
\* which reads back as a value that is falsy and counts as 0 in arithmetic
jsonRoundTrip(analysis) ==
  [analysis EXCEPT !.weights = [f \in DOMAIN analysis.weights |->
                                  IF analysis.weights[f] = NaN THEN 0 ELSE analysis.weights[f]]]

\* prisma.contextCache.findUnique({ where: { contextHash } }); the cache is
\* a function from the stored hashes to their rows
getCachedContext(cache, contextRaw) ==
  IF hashString(contextRaw) \in DOMAIN cache THEN << cache[hashString(contextRaw)] >> ELSE << >>

\* prisma.contextCache.upsert: an existing row keeps its contextRaw and
\* contextParsed (only hitCount and updatedAt change)
cacheContext(cache, contextRaw, contextParsed) ==
  IF hashString(contextRaw) \in DOMAIN cache THEN cache
  ELSE [h \in DOMAIN cache \cup {hashString(contextRaw)} |->
          IF h \in DOMAIN cache THEN cache[h]
          ELSE [contextRaw |-> contextRaw, contextParsed |-> jsonRoundTrip(contextParsed)]]

extractFavoriteGenres(feedbackHistory) ==
  IF \E i \in 1..Len(feedbackHistory) : feedbackHistory[i].feedbackType = "UPVOTE"
  THEN << "unknown" >> ELSE << >>

processFeedbackHistory(feedbackHistory) ==
  [i \in 1..Len(feedbackHistory) |->
     [contextType |-> feedbackHistory[i].contextRaw,
      audioFeatures |-> EmptyFeatures,
      feedbackScore |-> IF feedbackHistory[i].feedbackType = "UPVOTE" THEN 1
                        ELSE IF feedbackHistory[i].feedbackType = "DOWNVOTE" THEN -1 ELSE 0,
      listenTime |-> feedbackHistory[i].playTime,
      timestamp |-> feedbackHistory[i].createdAt]]

RECURSIVE reverse(_)
reverse(s) == IF Len(s) = 0 THEN s ELSE Append(reverse(SubSeq(s, 2, Len(s))), s[1])

\* feedback.findMany({ where: { userId }, orderBy: { createdAt: 'desc' },
\* take: 500, include: { vybe: true } }) over the table in insertion order
findFeedback(feedbackTable, vybeTable, userId) ==
  LET own == reverse(SelectSeq(feedbackTable, LAMBDA row : row.userId = userId))
  IN  [i \in 1..Min(Len(own), 500) |->
         [feedbackType |-> own[i].feedbackType, playTime |-> own[i].playTime,
          createdAt |-> own[i].createdAt, contextRaw |-> vybeTable[own[i].vybeId].contextRaw]]

emptyProfile == [favoriteGenres |-> << >>, feedbackHistory |-> << >>]

getUserMusicProfile(feedbackTable, vybeTable, userId, fault) ==
  IF fault = "feedbackQuery" THEN emptyProfile
  ELSE LET feedbackHistory == findFeedback(feedbackTable, vybeTable, userId)
       IN  [favoriteGenres |-> extractFavoriteGenres(feedbackHistory),
            feedbackHistory |-> processFeedbackHistory(feedbackHistory)]

\* the parts of the prompt that depend on the call
buildContextPrompt(contextText, userHistory) ==
  [contextText |-> contextText, favoriteGenres |-> userHistory.preferences.favoriteGenres]

\* the response text is parsed; `interpretedFor` records the call the
\* interpreter answered (the caller and the prompt it was given)
processWithClaude(contextText, userHistory, userId, response) ==
  [a \in {"interpretedFor"} |-> [userId |-> userId,
                                  prompt |-> buildContextPrompt(contextText, userHistory)]]
    @@ parseClaudeResponse(response)

\* returns the analysis, or the error thrown, and the cache afterwards
interpretContext(cache, contextText, userHistory, userId, response, fault) ==
  LET cached == IF fault = "cacheRead" THEN << >> ELSE getCachedContext(cache, contextText)
  IN  IF Len(cached) > 0
      THEN [error |-> "", analysis |-> cached[1].contextParsed, cache |-> cache]
      ELSE IF fault = "interpreter"
      THEN [error |-> "OpenAiApiError", analysis |-> << >>, cache |-> cache]
      ELSE LET analysis == processWithClaude(contextText, userHistory, userId, response)
           IN  [error |-> "", analysis |-> analysis,
                cache |-> IF fault = "cacheWrite" THEN cache
                          ELSE cacheContext(cache, contextText, analysis)]

\* spotifyService.getMultipleAudioFeatures: the ids the catalogue knows, in
\* request order (unavailable ids are left out)
getMultipleAudioFeatures(catalog, trackIds) ==
  SelectSeq(trackIds, LAMBDA id : id \in DOMAIN catalog)

\* findSimilarContextPattern returns null: no pattern is ever found
findSimilarContextPattern(contextText, userProfile) == << >>

\* as adjustWeight, but interpolating from the preference towards the base
adjustWeightFromPreference(baseWeight, userPreference, learningRate) ==
  Add(userPreference, DivBy(Mul(Add(baseWeight, Mul(userPreference, -1)), learningRate), Unit))

\* baseWeight + (userPreference - baseWeight) * learningRate, rate in tenths
adjustWeight(baseWeight, userPreference, learningRate) ==
  Add(baseWeight, DivBy(Mul(Add(userPreference, Mul(baseWeight, -1)), learningRate), Unit))

learningRate == 3

\* the weights applyIndividualLearning builds once a pattern was found
learnFromPattern(baseWeights, similarContextPattern) ==
  [valence |-> adjustWeight(baseWeights.valence, similarContextPattern.valence, learningRate),
   energy |-> adjustWeight(baseWeights.energy, similarContextPattern.energy, learningRate),
   danceability |->
     adjustWeight(baseWeights.danceability, similarContextPattern.danceability, learningRate),
   acousticness |->
     adjustWeight(baseWeights.acousticness, similarContextPattern.acousticness, learningRate),
   tempoModifier |->
     adjustWeight(baseWeights.tempoModifier, similarContextPattern.tempoModifier, learningRate)]

\* as applyIndividualLearning, but without the early return: the fields of
\* the missing pattern are read
applyIndividualLearningUnguarded(baseWeights, contextText, userProfile) ==
  LET similarContextPattern == findSimilarContextPattern(contextText, userProfile)
  IN  IF Len(similarContextPattern) = 0
      THEN Thrown("Cannot read properties of null")
      ELSE learnFromPattern(baseWeights, similarContextPattern[1])

applyIndividualLearning(baseWeights, contextText, userProfile) ==
  LET similarContextPattern == findSimilarContextPattern(contextText, userProfile)
  IN  IF Len(similarContextPattern) = 0 THEN baseWeights
      ELSE learnFromPattern(baseWeights, similarContextPattern[1])

generateSearchQueries(contextAnalysis) ==
  LET queries ==
        [i \in 1..Len(contextAnalysis.musicGenres) |->
           << "genre", contextAnalysis.musicGenres[i], contextAnalysis.mood >>]
          \o << << "mood", contextAnalysis.mood, contextAnalysis.energy >>,
                << "activity", contextAnalysis.activityType, "music" >> >>
  IN  SubSeq(queries, 1, Min(3, Len(queries)))

\* as addCandidates, without the look into the map
addCandidatesUnchecked(candidateIds, ids) == candidateIds \o ids

RECURSIVE addCandidates(_, _)
\* audioFeatures.forEach: a track id not yet in the map is added at its end
addCandidates(candidateIds, ids) ==
  IF Len(ids) = 0 THEN candidateIds
  ELSE addCandidates(IF \E k \in 1..Len(candidateIds) : candidateIds[k] = ids[1]
                     THEN candidateIds ELSE Append(candidateIds, ids[1]),
                     SubSeq(ids, 2, Len(ids)))

RECURSIVE collectCandidates(_, _, _, _)
\* the loop over the search queries; searchResults[i] is what the i-th
\* search returned: [throws, items, featuresThrow]
collectCandidates(catalog, searchResults, excludeTrackIds, candidateIds) ==
  IF Len(searchResults) = 0 THEN candidateIds
  ELSE LET r == searchResults[1]
           wanted == SelectSeq(r.items, LAMBDA id : \A k \in 1..Len(excludeTrackIds) : excludeTrackIds[k] # id)
           trackIds == SubSeq(wanted, 1, Min(30, Len(wanted)))
       IN  collectCandidates(catalog, SubSeq(searchResults, 2, Len(searchResults)), excludeTrackIds,
                             IF r.throws \/ r.featuresThrow THEN candidateIds
                             ELSE addCandidates(candidateIds, getMultipleAudioFeatures(catalog, trackIds)))

findCandidateTracks(catalog, searchResults, excludeTrackIds) ==
  LET candidateIds == collectCandidates(catalog, searchResults, excludeTrackIds, << >>)
  IN  [i \in 1..Len(candidateIds) |-> [trackId |-> candidateIds[i], features |-> catalog[candidateIds[i]]]]

\* searchTracks(query, 50) against the catalogue: the ids of the items found
searchTracks(query) ==
  CASE query[1] = "genre" -> << "t1", "t2", "zz" >>
    [] query[1] = "mood" -> << "t2", "t4" >>
    [] OTHER -> << "t4", "t1" >>

\* steps 3 to 8 of generateRecommendations: the set of outcomes, each the
\* error thrown ("" if none), the recommendations, and in builderEnteredWith
\* the number of feature objects createReferenceProfile was called with
\* (empty if it was not called)
recommendFrom(request, contextAnalysis, userProfile, catalog, details, clock, fault) ==
  LET knownIds == getMultipleAudioFeatures(catalog, request.referenceTrackIds)
      referenceAudioFeatures == [i \in 1..Len(knownIds) |-> catalog[knownIds[i]]]
  IN  IF fault = "audioFeatures"
      THEN {[error |-> "SPOTIFY_API_ERROR", recommendations |-> << >>, builderEnteredWith |-> << >>]}
      ELSE IF IsThrown(createReferenceProfile(referenceAudioFeatures))
      THEN {[error |-> "INTERNAL_ERROR", recommendations |-> << >>,
             builderEnteredWith |-> << Len(referenceAudioFeatures) >>]}
      ELSE LET referenceProfile == createReferenceProfile(referenceAudioFeatures)
               weightedProfile == applyContextWeights(referenceProfile, contextAnalysis.weights)
               personalizedWeights ==
                 applyIndividualLearning(contextAnalysis.weights, request.contextText, userProfile)
               searchQueries == generateSearchQueries(contextAnalysis)
               searchResults ==
                 [i \in 1..Len(searchQueries) |->
                    [throws |-> fault = "search", featuresThrow |-> FALSE,
                     items |-> searchTracks(searchQueries[i])]]
               candidateTracks == findCandidateTracks(catalog, searchResults, request.excludeTrackIds)
               rankings ==
                 rankByIndividualPreference(candidateTracks,
                                            [weightedProfile EXCEPT !.weights = personalizedWeights],
                                            userProfile, clock, details,
                                            IF fault = "getTrack" THEN {"t2"} ELSE {})
           IN  {[error |-> "", builderEnteredWith |-> << Len(referenceAudioFeatures) >>,
                 recommendations |->
                   diversifyRecommendations(SubSeq(ranked, 1, Min(request.limit * 2, Len(ranked))),
                                            request.limit)] : ranked \in rankings}

\* the set of outcomes of generateRecommendations: the error rethrown or the
\* result returned, the context cache afterwards and the vybe row created
generateRecommendations(request, feedbackTable, vybeTable, cache, catalog, details, clock, world) ==
  LET userProfile == getUserMusicProfile(feedbackTable, vybeTable, request.userId, world.fault)
      interpreted == interpretContext(cache, request.contextText, [preferences |-> userProfile],
                                      request.userId, world.response, world.fault)
  IN  IF interpreted.error # ""
      THEN {[error |-> "OPENAI_API_ERROR", interpretationFailed |-> TRUE, cache |-> interpreted.cache,
             builderEnteredWith |-> << >>,
             contextAnalysis |-> interpreted.analysis, recommendations |-> << >>]}
      ELSE {[error |-> o.error, interpretationFailed |-> FALSE, cache |-> interpreted.cache,
             builderEnteredWith |-> o.builderEnteredWith,
             contextAnalysis |-> interpreted.analysis, recommendations |-> o.recommendations] :
              o \in recommendFrom(request, interpreted.analysis, userProfile, catalog, details,
                                  clock, world.fault)}

\* AppError.statusCode for the error codes; any other error is a 500
statusOf(code) == IF code \in {"SPOTIFY_API_ERROR", "OPENAI_API_ERROR"} THEN 503 ELSE 500



(***************************************************************************)
(* Bounded input domains                                                  *)
(***************************************************************************)

MaxRecs == 3
MaxLimit == 3
MaxHistory == 2
MaxRefs == 3

\* a catalogue feature object; tempo / 200, (loudness + 60) / 60 and key / 11
\* are whole tenths for these values
Features(v, e, t, m) ==
  [valence |-> v, energy |-> e, danceability |-> v, acousticness |-> 0,
   instrumentalness |-> 0, liveness |-> 0, speechiness |-> 0,
   tempo |-> t, loudness |-> IF t = 0 THEN -60 ELSE -6,
   mode |-> m, key |-> 11 * m, time_signature |-> 4]

FeatureVectors ==
  {Features(v, e, t, m) : v \in {0, 4, 8}, e \in {0, 8}, t \in {0, 120}, m \in {0, 1}}

ZeroVector == Features(0, 0, 0, 0)

\* an AudioFeatureVector of the data model: bounded fields in [0,1], positive tempo
ValidFeatures(x) ==
  /\ \A f \in {"valence", "energy", "danceability", "acousticness",
               "instrumentalness", "liveness", "speechiness"} : x[f] \in 0..Unit
  /\ x.tempo > 0
  /\ x.mode \in {0, 1}
  /\ x.key \in 0..11

Weights(v, e, d, a, t) ==
  [valence |-> v, energy |-> e, danceability |-> d, acousticness |-> a, tempoModifier |-> t]

NeutralWeights == Weights(Unit \div 2, Unit \div 2, Unit \div 2, Unit \div 2, Unit)

WeightSet ==
  {NeutralWeights, Weights(0, 0, 0, 0, Unit), Weights(Unit, 8, 0, 3, 2 * Unit),
   Weights(7, 7, 6, 3, Unit \div 2)}

Profiles ==
  {createReferenceProfile(<< x >>) : x \in FeatureVectors}
    \cup {createReferenceProfile(<< x, y >>) : x, y \in FeatureVectors}

\* the catalogue: the tracks the provider knows, with their audio features
\* and artists
TrackIds == {"t1", "t2", "t3", "t4"}

CatalogFeatures ==
  [t \in TrackIds |->
     CASE t = "t1" -> Features(8, 8, 120, 1)
       [] t = "t2" -> Features(8, 8, 120, 1)
       [] t = "t3" -> Features(0, 0, 0, 0)
       [] OTHER -> Features(0, 8, 120, 0)]

CatalogArtists ==
  [t \in TrackIds |->
     CASE t = "t1" -> << "A" >>
       [] t = "t2" -> << "A", "B" >>
       [] t = "t3" -> << "B" >>
       [] OTHER -> << >>]

\* sequences of length 0..n over the set S
SeqsUpTo(S, n) == UNION {[1..k -> S] : k \in 0..n}

\* sequences without repetition
Distinct(s) == \A i, j \in 1..Len(s) : s[i] = s[j] => i = j

ClockNow == 45

FeedbackEvents ==
  [contextType : {"unknown"},
   audioFeatures : {EmptyFeatures, Features(8, 8, 120, 1)},
   feedbackScore : {-1, 0, 1},
   listenTime : {0},
   timestamp : {0, ClockNow}]

Histories == SeqsUpTo(FeedbackEvents, MaxHistory)

RawValues ==
  {JsonNumber(0), JsonNumber(3), JsonNumber(Unit), JsonNumber(15), JsonNumber(-2),
   JsonNumber(25), JsonString(7), JsonString(NaN), JsonNull, JsonMissing}

Responses ==
  [hasJson : BOOLEAN, weightsIsObject : BOOLEAN,
   weights : [valence : RawValues, energy : {JsonNumber(3)}, danceability : {JsonNumber(0), JsonNumber(6)},
              acousticness : {JsonMissing, JsonNumber(Unit)}, tempoModifier : RawValues],
   reasoning : {""}, confidence : {JsonNumber(9)}, genresIsArray : {TRUE},
   musicGenres : {<< "pop" >>}, mood : {"happy"}, energy : {"high"},
   socialContext : {""}, activityType : {"driving"}]

TrackOrder == << "t1", "t2", "t3", "t4", "t5" >>

RecommendationBodies ==
  [artists : {<< "A" >>, << "B" >>, << >>},
   audioFeatures : {Features(8, 8, 120, 1), Features(0, 8, 120, 0)}]

\* ranked lists: distinct track ids, the i-th item is track i of the catalogue
RankedLists ==
  {[i \in 1..Len(b) |->
      [trackId |-> TrackOrder[i], artists |-> b[i].artists, audioFeatures |-> b[i].audioFeatures,
       confidence |-> 0, reasoning |-> [similarity |-> 0, personalPreference |-> 0]]] :
     b \in SeqsUpTo(RecommendationBodies, MaxRecs) \ {<< >>}}

\* a valid feature object with the given valence, mode, key and time signature
RefVector(v, m, k, ts) ==
  [Features(v, 8, 120, 1) EXCEPT !.mode = m, !.key = k, !.time_signature = ts]

RefVectors ==
  {RefVector(v, m, k, IF k = 7 THEN 3 ELSE 4) : v \in {4, 8}, m \in {0, 1}, k \in {0, 5, 7}}

\* five ranked candidates: ranks 1, 2 and 5 by one artist, ranks 3 and 4 by
\* others, with any feature vectors
SharedArtistLists ==
  {[i \in 1..5 |->
      [trackId |-> TrackOrder[i],
       artists |-> CASE i = 3 -> << x >> [] i = 4 -> << y >> [] OTHER -> << "A" >>,
       audioFeatures |-> f[i], confidence |-> 0,
       reasoning |-> [similarity |-> 0, personalPreference |-> 0]]] :
     x \in {"B", "C"}, y \in {"B", "C"},
     f \in [1..5 -> {Features(8, 8, 120, 1), Features(0, 8, 120, 0), ZeroVector}]}

VARIABLES call, ret, pc, vybes, feedback, contextCache, response, clock,
          limiter, requestCounts, passed, outcome, now

fnVars == << call, ret, pc >>

\* vybes and feedback are the database tables in insertion order (a row's
\* id is its position), contextCache the context_cache table by contextHash,
\* response the last HTTP response sent, clock the date in days
serverVars == << vybes, feedback, contextCache, response, clock >>

\* limiter holds the arguments userRateLimit was created with, requestCounts
\* is its Map, now is Date.now(); outcome is what the middleware did with the
\* last request and passed[userId] the times at which it called next() for
\* the user since the user's present window was opened
limitVars == << limiter, requestCounts, passed, outcome, now >>

vars == << call, ret, pc, vybes, feedback, contextCache, response, clock,
           limiter, requestCounts, passed, outcome, now >>

noOutcome == [userId |-> "", next |-> FALSE, status |-> 0]

\* the limiter of POST /vybes before any request: 10 requests per 15 minutes
LimiterIdle ==
  /\ requestCounts = << >>
  /\ passed = << >>
  /\ outcome = noOutcome
  /\ now = 0

noResponse == [route |-> "", status |-> 0, code |-> "", userId |-> "", interpretationFailed |-> FALSE,
               builderEnteredWith |-> << >>,
               data |-> << >>, contextAnalysis |-> << >>]

ServerInit ==
  /\ vybes = << >>
  /\ feedback = << >>
  /\ contextCache = << >>
  /\ response = noResponse
  /\ clock = 0
  /\ limiter = [maxRequests |-> 10, windowMs |-> 15 * 60 * 1000]
  /\ LimiterIdle

\* a track whose features lack the liveness field
PartialFeatures == [Features(8, 8, 120, 1) EXCEPT !.liveness = NaN]

SimilarityCalls ==
  [fn : {"calculateSimilarity"}, profile1 : FeatureVectors \cup {EmptyFeatures},
   profile2 : FeatureVectors \cup {EmptyFeatures, PartialFeatures},
   contextWeights : {NoWeights} \cup WeightSet]

ApplyWeightsCalls ==
  [fn : {"applyContextWeights"}, profile : Profiles, contextWeights : WeightSet]

PreferenceCalls ==
  [fn : {"calculatePersonalPreference"},
   trackFeatures : {Features(8, 8, 120, 1), Features(0, 8, 120, 0), ZeroVector},
   userProfile : [feedbackHistory : Histories], clock : {ClockNow}]

RankCalls ==
  [fn : {"rankByIndividualPreference"},
   candidates : {[i \in 1..Len(ids) |-> [trackId |-> ids[i], features |-> CatalogFeatures[ids[i]]]] :
                   ids \in {s \in SeqsUpTo(TrackIds, MaxRecs) : Distinct(s)}},
   weightedProfile : {applyContextWeights(createReferenceProfile(<< Features(8, 8, 120, 1) >>), w) :
                        w \in {NeutralWeights, Weights(0, 0, 0, 0, Unit)}},
   userProfile : [feedbackHistory : SeqsUpTo({e \in FeedbackEvents : e.timestamp = 0
                                                 /\ e.audioFeatures = EmptyFeatures}, 1)],
   clock : {ClockNow},
   failedTracks : {{}, {"t2"}}]

DiversifyCalls ==
  [fn : {"diversifyRecommendations"}, recommendations : RankedLists, limit : 1..MaxLimit]
    \cup [fn : {"diversifyRecommendations"}, recommendations : SharedArtistLists, limit : {3}]

ParseCalls ==
  [fn : {"parseClaudeResponse"}, response : Responses]

ReferenceProfileCalls ==
  [fn : {"createReferenceProfile"}, audioFeatures : SeqsUpTo(RefVectors, MaxRefs)]

\* the audio features a weighted profile stands for
featuresOf(profile) ==
  [valence |-> profile.valence, energy |-> profile.energy,
   danceability |-> profile.danceability, acousticness |-> profile.acousticness,
   instrumentalness |-> profile.instrumentalness, liveness |-> profile.liveness,
   speechiness |-> profile.speechiness, tempo |-> profile.tempo,
   loudness |-> profile.loudness, mode |-> profile.mode, key |-> profile.key,
   time_signature |-> profile.timeSignature]

WeightedProfiles ==
  {applyContextWeights(createReferenceProfile(<< x >>), w) :
     x \in {y \in FeatureVectors : y.tempo > 0}, w \in WeightSet}

\* one or two candidates: the target's own features, two tracks of the
\* catalogue and the zero vector
SimilarityRankCalls ==
  UNION {LET features == {featuresOf(target), Features(0, 0, 120, 0), Features(8, 8, 120, 1),
                          ZeroVector}
         IN  [fn : {"rankTracksBySimilarity"}, targetProfile : {target},
              candidateFeatures :
                {<< [trackId |-> "t1", features |-> c] >> : c \in features}
                  \cup {<< [trackId |-> "t1", features |-> c],
                           [trackId |-> "t2", features |-> d] >> : c, d \in features}]
           : target \in WeightedProfiles}

\* what one search may do: throw, or return items (repeated, unknown to
\* the catalogue or excluded ones among them), after which the features
\* request may throw
SearchOutcomes ==
  {[throws |-> TRUE, items |-> << >>, featuresThrow |-> FALSE]}
    \cup [throws : {FALSE}, items : SeqsUpTo({"t1", "t2", "zz"}, 2), featuresThrow : BOOLEAN]

CandidateCalls ==
  [fn : {"findCandidateTracks"},
   searchResults : {<< a >> : a \in SearchOutcomes} \cup {<< a, b >> : a, b \in SearchOutcomes},
   excludeTrackIds : {<< >>, << "t1" >>, << "t2", "t4" >>}]

\* weights of the data model, in tenths, and learning rates 0, 0.3 and 1
AdjustWeightCalls ==
  [fn : {"adjustWeight"}, baseWeight : {0, 3, 5, Unit}, userPreference : {0, 4, Unit, 2 * Unit},
   learningRate : {0, learningRate, Unit}]

\* the branch of applyIndividualLearning behind the lookup, entered with
\* the pattern the lookup would hand over
LearnFromPatternCalls ==
  [fn : {"learnFromPattern"}, baseWeights : WeightSet, similarContextPattern : WeightSet]

IndividualLearningCalls ==
  [fn : {"applyIndividualLearning"}, baseWeights : WeightSet,
   contextText : {<< 65, 97 >>, << 66, 66 >>},
   userProfile : [feedbackHistory : SeqsUpTo({e \in FeedbackEvents : e.timestamp = 0}, 1)]]

FnInit ==
  /\ call \in SimilarityCalls \cup ApplyWeightsCalls \cup PreferenceCalls \cup RankCalls
                \cup DiversifyCalls \cup ParseCalls \cup ReferenceProfileCalls
                \cup AdjustWeightCalls \cup LearnFromPatternCalls
                \cup IndividualLearningCalls \cup SimilarityRankCalls \cup CandidateCalls
  /\ ret = << >>
  /\ pc = "call"
  /\ ServerInit

CallSimilarity ==
  /\ pc = "call"
  /\ call.fn = "calculateSimilarity"
  /\ ret' = calculateSimilarity(call.profile1, call.profile2, call.contextWeights)
  /\ pc' = "return"
  /\ UNCHANGED << call, serverVars, limitVars >>

CallApplyWeights ==
  /\ pc = "call"
  /\ call.fn = "applyContextWeights"
  /\ ret' = applyContextWeights(call.profile, call.contextWeights)
  /\ pc' = "return"
  /\ UNCHANGED << call, serverVars, limitVars >>

CallPersonalPreference ==
  /\ pc = "call"
  /\ call.fn = "calculatePersonalPreference"
  /\ ret' = calculatePersonalPreference(call.trackFeatures, call.userProfile, call.clock)
  /\ pc' = "return"
  /\ UNCHANGED << call, serverVars, limitVars >>

CallRank ==
  /\ pc = "call"
  /\ call.fn = "rankByIndividualPreference"
  /\ ret' \in rankByIndividualPreference(call.candidates, call.weightedProfile, call.userProfile,
                                          call.clock, CatalogArtists, call.failedTracks)
  /\ pc' = "return"
  /\ UNCHANGED << call, serverVars, limitVars >>

CallDiversify ==
  /\ pc = "call"
  /\ call.fn = "diversifyRecommendations"
  /\ ret' = diversifyRecommendations(call.recommendations, call.limit)
  /\ pc' = "return"
  /\ UNCHANGED << call, serverVars, limitVars >>

CallParse ==
  /\ pc = "call"
  /\ call.fn = "parseClaudeResponse"
  /\ ret' = parseClaudeResponse(call.response)
  /\ pc' = "return"
  /\ UNCHANGED << call, serverVars, limitVars >>

CallCreateReferenceProfile ==
  /\ pc = "call"
  /\ call.fn = "createReferenceProfile"
  /\ ret' = createReferenceProfile(call.audioFeatures)
  /\ pc' = "return"
  /\ UNCHANGED << call, serverVars, limitVars >>

CallAdjustWeight ==
  /\ pc = "call"
  /\ call.fn = "adjustWeight"
  /\ ret' = adjustWeight(call.baseWeight, call.userPreference, call.learningRate)
  /\ pc' = "return"
  /\ UNCHANGED << call, serverVars, limitVars >>

CallLearnFromPattern ==
  /\ pc = "call"
  /\ call.fn = "learnFromPattern"
  /\ ret' = learnFromPattern(call.baseWeights, call.similarContextPattern)
  /\ pc' = "return"
  /\ UNCHANGED << call, serverVars, limitVars >>

CallApplyIndividualLearning ==
  /\ pc = "call"
  /\ call.fn = "applyIndividualLearning"
  /\ ret' = applyIndividualLearning(call.baseWeights, call.contextText, call.userProfile)
  /\ pc' = "return"
  /\ UNCHANGED << call, serverVars, limitVars >>

CallRankTracksBySimilarity ==
  /\ pc = "call"
  /\ call.fn = "rankTracksBySimilarity"
  /\ ret' \in rankTracksBySimilarity(call.targetProfile, call.candidateFeatures)
  /\ pc' = "return"
  /\ UNCHANGED << call, serverVars, limitVars >>

CallFindCandidateTracks ==
  /\ pc = "call"
  /\ call.fn = "findCandidateTracks"
  /\ ret' = findCandidateTracks(CatalogFeatures, call.searchResults, call.excludeTrackIds)
  /\ pc' = "return"
  /\ UNCHANGED << call, serverVars, limitVars >>

FnNext ==
  \/ CallSimilarity
  \/ CallApplyWeights
  \/ CallPersonalPreference
  \/ CallRank
  \/ CallDiversify
  \/ CallParse
  \/ CallCreateReferenceProfile
  \/ CallAdjustWeight
  \/ CallLearnFromPattern
  \/ CallApplyIndividualLearning
  \/ CallRankTracksBySimilarity
  \/ CallFindCandidateTracks

SpecFn == FnInit /\ [][FnNext]_vars


(***************************************************************************)
(* The server: POST /vybes, POST /vybes/:vybeId/feedback and the clock    *)
(***************************************************************************)

MaxVybes == 2
MaxFeedback == 1
MaxClock == 1

Listeners == {"u1", "u2"}

\* "Aa" and "BB", two texts with the same hashString, and " "
ContextAa == << 65, 97 >>

ContextBB == << 66, 66 >>

ContextBlank == << 32 >>

\* an interpreter response with the given valence and tempoModifier
ResponseWith(ok, v, t) ==
  [hasJson |-> ok, weightsIsObject |-> ok,
   weights |-> [valence |-> v, energy |-> JsonNumber(3), danceability |-> JsonNumber(6),
                acousticness |-> JsonMissing, tempoModifier |-> t],
   reasoning |-> "", confidence |-> JsonNumber(9), genresIsArray |-> TRUE,
   musicGenres |-> << "pop" >>, mood |-> "happy", energy |-> "high",
   socialContext |-> "", activityType |-> "driving"]

Request(userId, context, referenceTrackIds, limit) ==
  [userId |-> userId, context |-> context, referenceTrackIds |-> referenceTrackIds, limit |-> limit]

\* what the services outside the server do during one request: the failure
\* injected (at most one) and the interpreter's response if it is called
World(fault, answer) == [fault |-> fault, response |-> answer]

InterpreterResponses ==
  {ResponseWith(TRUE, JsonNumber(Unit), JsonNumber(Unit)),
   ResponseWith(TRUE, JsonNumber(3), JsonNumber(15)),
   ResponseWith(FALSE, JsonMissing, JsonMissing)}

Faults ==
  {"feedbackQuery", "cacheRead", "cacheWrite", "interpreter", "audioFeatures", "search", "getTrack"}

\* the requests made: any listener with either text when nothing fails, one
\* request for each failure, and one for each way of failing validation
VybeScenarios ==
  {[req |-> Request(u, c, << "t1" >>, 2), world |-> World("none", r)] :
     u \in Listeners, c \in {ContextAa, ContextBB}, r \in InterpreterResponses}
    \cup {[req |-> Request("u1", ContextAa, << "t1" >>, 2),
           world |-> World(f, ResponseWith(TRUE, JsonNumber(Unit), JsonNumber(Unit)))] : f \in Faults}
    \cup {[req |-> r, world |-> World("none", ResponseWith(FALSE, JsonMissing, JsonMissing))] :
            r \in {Request("u1", ContextBlank, << "t1" >>, 2),
                   Request("u1", ContextAa, << >>, 2),
                   Request("u1", ContextAa, << "zz" >>, 2),
                   Request("u1", ContextAa, << "t1", "t1", "t1", "t1", "t1", "t1" >>, 2),
                   Request("u1", ContextAa, << "t1" >>, 51)}}

\* res.status(400).json(...) of the validation in POST /vybes, "" if valid
validationCode(req) ==
  IF Len(req.context) = 0 \/ Len(trim(req.context)) = 0 THEN "MISSING_CONTEXT"
  ELSE IF Len(req.referenceTrackIds) = 0 THEN "MISSING_REFERENCE_TRACKS"
  ELSE IF Len(req.referenceTrackIds) > 5 THEN "TOO_MANY_REFERENCE_TRACKS"
  ELSE IF req.limit > 50 THEN "LIMIT_TOO_HIGH"
  ELSE ""

\* what the handler answers and stores
vybesOutcome(req, world) ==
  /\ Len(vybes) < MaxVybes
  /\ IF validationCode(req) # ""
     THEN /\ response' = [noResponse EXCEPT !.route = "vybes", !.status = 400, !.code = validationCode(req),
                                             !.userId = req.userId]
          /\ UNCHANGED << vybes, contextCache >>
     ELSE \E result \in generateRecommendations(
                          [userId |-> req.userId, contextText |-> trim(req.context),
                           referenceTrackIds |-> req.referenceTrackIds,
                           limit |-> Min(req.limit, 50), excludeTrackIds |-> << >>],
                          feedback, vybes, contextCache, CatalogFeatures, CatalogArtists, clock, world) :
            /\ contextCache' = result.cache
            /\ IF result.error # ""
               THEN /\ response' = [noResponse EXCEPT !.route = "vybes", !.status = statusOf(result.error),
                                                       !.code = result.error, !.userId = req.userId,
                                                       !.interpretationFailed = result.interpretationFailed,
                                                       !.builderEnteredWith = result.builderEnteredWith]
                    /\ UNCHANGED vybes
               ELSE /\ vybes' = Append(vybes, [userId |-> req.userId, contextRaw |-> trim(req.context)])
                    /\ response' = [route |-> "vybes", status |-> 201, code |-> "", userId |-> req.userId,
                                    interpretationFailed |-> FALSE,
                                    builderEnteredWith |-> result.builderEnteredWith,
                                    data |-> [id |-> Len(vybes) + 1, context |-> trim(req.context),
                                              contextParsed |-> result.contextAnalysis.weights,
                                              referenceTrackIds |-> req.referenceTrackIds,
                                              recommendations |-> result.recommendations],
                                    contextAnalysis |-> result.contextAnalysis]

\* as PostVybes, but the request deletes the listener's feedback records
PostVybesDeletingFeedback(req, world) ==
  /\ vybesOutcome(req, world)
  /\ feedback' = SelectSeq(feedback, LAMBDA record : record.userId # req.userId)
  /\ UNCHANGED << clock, fnVars, limitVars >>

PostVybes(req, world) ==
  /\ vybesOutcome(req, world)
  /\ UNCHANGED << feedback, clock, fnVars, limitVars >>

FeedbackRequest(userId, vybeId, trackId, feedbackType) ==
  [userId |-> userId, vybeId |-> vybeId, trackId |-> trackId, feedbackType |-> feedbackType,
   playTime |-> 0]

\* feedback on any vybe by any listener, and one request for each way of
\* failing validation
FeedbackRequests ==
  {FeedbackRequest(u, v, "t1", t) : u \in Listeners, v \in 1..MaxVybes, t \in {"upvote", "downvote"}}
    \cup {FeedbackRequest("u1", 1, "", "upvote"), FeedbackRequest("u1", 1, "t1", "like")}

upperCase(feedbackType) ==
  CASE feedbackType = "upvote" -> "UPVOTE"
    [] feedbackType = "downvote" -> "DOWNVOTE"
    [] OTHER -> "SKIP"

PostFeedback(req) ==
  /\ Len(feedback) < MaxFeedback
  /\ IF req.trackId = "" \/ req.feedbackType \notin {"upvote", "downvote", "skip"}
     THEN /\ response' = [noResponse EXCEPT !.route = "feedback", !.status = 400, !.userId = req.userId]
          /\ UNCHANGED feedback
     ELSE IF ~(req.vybeId \in 1..Len(vybes) /\ vybes[req.vybeId].userId = req.userId)
     THEN /\ response' = [noResponse EXCEPT !.route = "feedback", !.status = 404, !.userId = req.userId]
          /\ UNCHANGED feedback
     ELSE /\ feedback' = Append(feedback, [vybeId |-> req.vybeId, userId |-> req.userId,
                                           trackId |-> req.trackId,
                                           feedbackType |-> upperCase(req.feedbackType),
                                           playTime |-> req.playTime, createdAt |-> clock])
          /\ response' = [noResponse EXCEPT !.route = "feedback", !.status = 201, !.userId = req.userId,
                                             !.data = [id |-> Len(feedback) + 1, vybeId |-> req.vybeId,
                                                       trackId |-> req.trackId,
                                                       feedbackType |-> req.feedbackType]]
  /\ UNCHANGED << vybes, contextCache, clock, fnVars, limitVars >>

\* a day passes
Tick ==
  /\ clock < MaxClock
  /\ clock' = clock + 1
  /\ UNCHANGED << vybes, feedback, contextCache, response, fnVars, limitVars >>

Init ==
  /\ call = << >>
  /\ ret = << >>
  /\ pc = "idle"
  /\ ServerInit

Next ==
  \/ \E s \in VybeScenarios : PostVybes(s.req, s.world)
  \/ \E req \in FeedbackRequests : PostFeedback(req)
  \/ Tick

Spec == Init /\ [][Next]_vars


(***************************************************************************)
(* The middleware userRateLimit(maxRequests, windowMs)                    *)
(***************************************************************************)

MaxQuota == 2

MaxWindow == 2

MaxNow == 4

\* Map.prototype.set
mapSet(map, key, value) ==
  [k \in DOMAIN map \cup {key} |-> IF k = key THEN value ELSE map[k]]

\* as userRateLimit, but the request is refused only once the count is
\* above maxRequests
userRateLimitAboveOnly(maxRequests, windowMs, counts, userId, time) ==
  IF userId = ""
  THEN [requestCounts |-> counts, next |-> TRUE, status |-> 0]
  ELSE IF userId \notin DOMAIN counts \/ time > counts[userId].resetTime
  THEN [requestCounts |-> mapSet(counts, userId, [count |-> 1, resetTime |-> time + windowMs]),
        next |-> TRUE, status |-> 0]
  ELSE IF counts[userId].count > maxRequests
  THEN [requestCounts |-> counts, next |-> FALSE, status |-> 429]
  ELSE [requestCounts |-> mapSet(counts, userId, [counts[userId] EXCEPT !.count = @ + 1]),
        next |-> TRUE, status |-> 0]

\* one run of the middleware for a request of userId ("" when req.user is
\* not set) at the given time: the Map afterwards, whether next() was
\* called, and the status answered otherwise
userRateLimit(maxRequests, windowMs, counts, userId, time) ==
  IF userId = ""
  THEN [requestCounts |-> counts, next |-> TRUE, status |-> 0]
  ELSE IF userId \notin DOMAIN counts \/ time > counts[userId].resetTime
  THEN [requestCounts |-> mapSet(counts, userId, [count |-> 1, resetTime |-> time + windowMs]),
        next |-> TRUE, status |-> 0]
  ELSE IF counts[userId].count >= maxRequests
  THEN [requestCounts |-> counts, next |-> FALSE, status |-> 429]
  ELSE [requestCounts |-> mapSet(counts, userId, [counts[userId] EXCEPT !.count = @ + 1]),
        next |-> TRUE, status |-> 0]

LimitInit ==
  /\ call = << >>
  /\ ret = << >>
  /\ pc = "idle"
  /\ vybes = << >>
  /\ feedback = << >>
  /\ contextCache = << >>
  /\ response = noResponse
  /\ clock = 0
  /\ limiter \in [maxRequests : 1..MaxQuota, windowMs : 1..MaxWindow]
  /\ LimiterIdle

\* a request of an authenticated user reaches the middleware
LimitedRequest(userId) ==
  /\ LET result == userRateLimit(limiter.maxRequests, limiter.windowMs, requestCounts, userId, now)
     IN  /\ requestCounts' = result.requestCounts
         /\ outcome' = [userId |-> userId, next |-> result.next, status |-> result.status]
         /\ passed' = IF ~result.next THEN passed
                      ELSE IF userId \in DOMAIN requestCounts
                              /\ result.requestCounts[userId].resetTime
                                   = requestCounts[userId].resetTime
                      THEN mapSet(passed, userId, Append(passed[userId], now))
                      ELSE mapSet(passed, userId, << now >>)
  /\ UNCHANGED << limiter, now, fnVars, serverVars >>

\* a request without req.user reaches the middleware
AnonymousRequest ==
  /\ LET result == userRateLimit(limiter.maxRequests, limiter.windowMs, requestCounts, "", now)
     IN  /\ requestCounts' = result.requestCounts
         /\ outcome' = [userId |-> "", next |-> result.next, status |-> result.status]
  /\ UNCHANGED << limiter, passed, now, fnVars, serverVars >>

\* a millisecond passes
Advance ==
  /\ now < MaxNow
  /\ now' = now + 1
  /\ UNCHANGED << limiter, requestCounts, passed, outcome, fnVars, serverVars >>

LimitNext ==
  \/ \E userId \in Listeners : LimitedRequest(userId)
  \/ AnonymousRequest
  \/ Advance

SpecLimit == LimitInit /\ [][LimitNext]_vars


(***************************************************************************)
(* Properties                                                             *)
(***************************************************************************)

ProfileFields ==
  {"valence", "energy", "danceability", "acousticness", "instrumentalness",
   "liveness", "speechiness", "tempo", "loudness", "mode", "key", "timeSignature"}

Returned(fn) == pc = "return" /\ call.fn = fn

\* C3: applying the neutral weights (0.5, 0.5, 0.5, 0.5, tempoModifier 1.0)
\* returns a profile equal to the input profile in every feature field.
C3_NeutralWeightsAreNoOp ==
  (Returned("applyContextWeights") /\ call.contextWeights = NeutralWeights)
    => \A f \in ProfileFields : ret[f] = call.profile[f]

\* C4: for every valid feature vector x, with or without context weights,
\* similarity(x, x) is 1.0: the weighted dot product equals both weighted norms.
C4_SelfSimilarityIsOne ==
  (/\ Returned("calculateSimilarity")
   /\ call.profile1 = call.profile2
   /\ ValidFeatures(call.profile1))
    => /\ ret = Scale
       /\ LET t == similarityTerms(call.profile1, call.profile2, call.contextWeights)
          IN  t.dotProduct = t.norm1 /\ t.dotProduct = t.norm2 /\ t.dotProduct > 0

C4_Witness ==
  /\ Returned("calculateSimilarity")
  /\ call.profile1 = call.profile2
  /\ ValidFeatures(call.profile1)
  /\ call.profile1.valence = 8
  /\ call.contextWeights = Weights(7, 7, 6, 3, Unit \div 2)
  /\ ret = Scale

\* C5: when either weighted norm is zero, calculateSimilarity returns 0,
\* never NaN.
C5_ZeroNormGivesZero ==
  (/\ Returned("calculateSimilarity")
   /\ LET t == similarityTerms(call.profile1, call.profile2, call.contextWeights)
      IN  t.norm1 # NaN /\ t.norm2 # NaN /\ (t.norm1 = 0 \/ t.norm2 = 0))
    => ret = 0



TrackIdsOf(s) == {s[i].trackId : i \in 1..Len(s)}

\* position of the item with this track id in the sequence s
PositionIn(s, id) == CHOOSE i \in 1..Len(s) : s[i].trackId = id

\* C1: for a non-empty ranked list and limit >= 1, diversify returns exactly
\* min(limit, number of candidates) items: the first-pass selection followed
\* by not-yet-selected candidates in ranked order.
C1_DiversifyLength ==
  Returned("diversifyRecommendations")
    => LET selected == firstPass(call.recommendations, call.limit, 1, << >>, {})
       IN  /\ Len(ret) = Min(call.limit, Len(call.recommendations))
           /\ Distinct(ret)
           /\ \A i \in 1..Len(ret) : \E k \in 1..Len(call.recommendations) : ret[i] = call.recommendations[k]
           /\ SubSeq(ret, 1, Len(selected)) = selected
           /\ \A i, j \in (Len(selected) + 1)..Len(ret) :
                i < j => PositionIn(call.recommendations, ret[i].trackId)
                           < PositionIn(call.recommendations, ret[j].trackId)
           /\ \A k \in 1..Len(call.recommendations) :
                (Len(ret) < call.limit) => call.recommendations[k].trackId \in TrackIdsOf(ret)

C1_Witness ==
  /\ Returned("diversifyRecommendations")
  /\ Len(firstPass(call.recommendations, call.limit, 1, << >>, {})) < Len(ret)
  /\ Len(call.recommendations) > call.limit
  /\ Len(ret) = call.limit

\* a >= b as JavaScript compares: false when either side is NaN
Geq(a, b) == a # NaN /\ b # NaN /\ a >= b

\* C2: rank returns a permutation of its input candidates, sorted
\* non-increasing by blendedScore, ties in input order.
C2_RankSortedStablePermutation ==
  Returned("rankByIndividualPreference")
    => /\ Len(ret) = Len(call.candidates)
       /\ TrackIdsOf(ret) = TrackIdsOf(call.candidates)
       /\ \A i, j \in 1..Len(ret) : i < j => Geq(ret[i].confidence, ret[j].confidence)
       /\ \A i, j \in 1..Len(ret) :
            (i < j /\ ret[i].confidence = ret[j].confidence)
              => PositionIn(call.candidates, ret[i].trackId) < PositionIn(call.candidates, ret[j].trackId)

\* C6: with an empty feedback history the personal affinity is exactly 0.5
\* for every candidate, so every ranked score is 0.7 * similarity + 0.15.
C6_ColdStartIsNeutral ==
  /\ (Returned("calculatePersonalPreference") /\ Len(call.userProfile.feedbackHistory) = 0)
       => ret = Scale \div 2
  /\ (Returned("rankByIndividualPreference") /\ Len(call.userProfile.feedbackHistory) = 0)
       => \A i \in 1..Len(ret) :
            /\ ret[i].reasoning.personalPreference = Scale \div 2
            /\ ret[i].confidence = Add(Mul(ret[i].reasoning.similarity, 7), 3 * (Scale \div 2))

C6_Witness ==
  /\ Returned("calculatePersonalPreference")
  /\ Len(call.userProfile.feedbackHistory) = 0
  /\ call.trackFeatures = Features(0, 8, 120, 0)
  /\ ret = Scale \div 2

\* C7: for every candidate and every history the pipeline can load (stored
\* feature vectors without fields included) the personal affinity is a
\* number in [0,1].
C7_AffinityInUnitInterval ==
  (/\ Returned("calculatePersonalPreference")
   /\ \A i \in 1..Len(call.userProfile.feedbackHistory) :
        call.userProfile.feedbackHistory[i].audioFeatures = EmptyFeatures)
    => (ret # NaN /\ ret >= 0 /\ ret <= Scale)

\* what C10 requires of one ingested weight; a numeric string may be read
\* as its number or taken as malformed
IngestedAsClaimed(raw, result, neutral, min, max) ==
  /\ result # NaN /\ result >= min /\ result <= max
  /\ (raw.type = "number" /\ raw.value # NaN /\ raw.value >= min /\ raw.value <= max) => result = raw.value
  /\ (raw.type = "number" /\ raw.value # NaN /\ raw.value < min) => result = min
  /\ (raw.type = "number" /\ raw.value # NaN /\ raw.value > max) => result = max
  /\ (raw.type \in {"null", "undefined"} \/ raw.value = NaN) => result = neutral

\* C10: every ingested ContextWeights has its four weights in [0,1] and
\* tempoModifier in [0.5,2.0]; an in-range value is kept, an out-of-range one
\* clamped, and only a malformed or missing one replaced by the neutral value.
C10_WeightsClampedOnIngestion ==
  Returned("parseClaudeResponse")
    => /\ \A f \in {"valence", "energy", "danceability", "acousticness"} :
            /\ ret.weights[f] # NaN /\ ret.weights[f] >= 0 /\ ret.weights[f] <= Unit
            /\ (call.response.hasJson /\ call.response.weightsIsObject)
                 => IngestedAsClaimed(call.response.weights[f], ret.weights[f], Unit \div 2, 0, Unit)
       /\ ret.weights.tempoModifier # NaN
       /\ ret.weights.tempoModifier >= Unit \div 2
       /\ ret.weights.tempoModifier <= 2 * Unit
       /\ (call.response.hasJson /\ call.response.weightsIsObject)
            => IngestedAsClaimed(call.response.weights.tempoModifier, ret.weights.tempoModifier,
                                 Unit, Unit \div 2, 2 * Unit)

\* the prompt the interpreter is given for this listener's own text and history
ownPrompt(userId, contextText) ==
  buildContextPrompt(contextText,
                     [preferences |-> getUserMusicProfile(feedback, vybes, userId, "none")])

\* C8: the result returned to a listener depends only on that listener's own
\* request and feedback history: the context analysis (and so the weights)
\* behind every answer to POST /vybes was interpreted on a request of that
\* listener, or from the very prompt that the listener's own text and history
\* give, never from another listener's request
C8_ResultDependsOnOwnDataOnly ==
  (response.route = "vybes" /\ response.status = 201) =>
     \/ response.contextAnalysis.interpretedFor.userId = response.userId
     \/ response.contextAnalysis.interpretedFor.prompt = ownPrompt(response.userId, response.data.context)

\* C9: a request whose interpreter call failed is answered 201 with
\* recommendations computed under the neutral weights
C9_InterpreterFailureFallsBackToNeutral ==
  response.interpretationFailed =>
     /\ response.status = 201
     /\ response.data.contextParsed = NeutralWeights

\* the fields of a feature object and the profile fields built from them
FieldPairs ==
  {<< f, f >> : f \in {"valence", "energy", "danceability", "acousticness", "instrumentalness",
                        "liveness", "speechiness", "tempo", "loudness", "mode", "key"}}
    \cup {<< "time_signature", "timeSignature" >>}

\* C11: the reference profile built from N >= 1 copies of a valid vector v
\* (mode 0 and key 0 included) equals v in every field.
C11_ProfileOfCopiesIsTheVector ==
  (/\ Returned("createReferenceProfile")
   /\ Len(call.audioFeatures) >= 1
   /\ \A i \in 1..Len(call.audioFeatures) : call.audioFeatures[i] = call.audioFeatures[1]
   /\ ValidFeatures(call.audioFeatures[1]))
    => \A p \in FieldPairs : ret[p[2]] = call.audioFeatures[1][p[1]]

\* number of occurrences of v in the sequence
Count(values, v) == Cardinality({i \in 1..Len(values) : values[i] = v})

\* position of the first occurrence of v in the sequence
FirstAt(values, v) == CHOOSE i \in 1..Len(values) : values[i] = v /\ \A k \in 1..(i - 1) : values[k] # v

\* the most frequent value of a non-empty sequence; among equally frequent
\* values the one met first
MostFrequentFirst(values) ==
  CHOOSE v \in {values[i] : i \in 1..Len(values)} :
    \A w \in {values[i] : i \in 1..Len(values)} :
      \/ Count(values, v) > Count(values, w)
      \/ (Count(values, v) = Count(values, w) /\ FirstAt(values, v) <= FirstAt(values, w))

\* C12: for a non-empty input, mode, key and timeSignature of the reference
\* profile are each the most frequent input value of the field, the first
\* met among equally frequent ones; 1 is not put in place of an input value.
C12_CategoricalFieldsAreTheMode ==
  (Returned("createReferenceProfile") /\ Len(call.audioFeatures) >= 1)
    => \A p \in {<< "mode", "mode" >>, << "key", "key" >>, << "time_signature", "timeSignature" >>} :
         ret[p[2]] = MostFrequentFirst([i \in 1..Len(call.audioFeatures) |-> call.audioFeatures[i][p[1]]])

\* C13: building a reference profile from an empty sequence fails with an
\* error, and no profile is returned.
C13_EmptyInputFails ==
  (Returned("createReferenceProfile") /\ Len(call.audioFeatures) = 0)
    => /\ IsThrown(ret)
       /\ DOMAIN ret \cap ProfileFields = {}

C13_Witness ==
  /\ Returned("createReferenceProfile")
  /\ call.audioFeatures = << >>
  /\ ret = Thrown("At least one audio feature set is required")

\* C14: on every POST /vybes request that passes validation, the reference
\* profile builder is entered with 1 to 5 feature vectors, never with an
\* empty sequence, also when the catalogue has no features for a requested id.
C14_BuilderEnteredWithOneToFive ==
  (response.route = "vybes" /\ Len(response.builderEnteredWith) > 0)
    => response.builderEnteredWith[1] \in 1..5

\* number of items of the list whose primary artist is the given one
ByArtist(s, artist) == Cardinality({i \in 1..Len(s) : Len(s[i].artists) > 0 /\ s[i].artists[1] = artist})

\* ranks 1, 2 and 5 share a primary artist that ranks 3 and 4 do not have
SharedArtistCase(s) ==
  /\ Len(s) = 5
  /\ \A i \in {1, 2, 5} : s[i].artists = s[1].artists
  /\ \A i \in {3, 4} : Len(s[i].artists) > 0 /\ s[i].artists[1] # s[1].artists[1]

\* C15: for limit 3 and five ranked candidates of which ranks 1, 2 and 5
\* share a primary artist, diversify returns at least 3 results, at most 2
\* of them by the shared artist.
C15_SharedArtistCapped ==
  (/\ Returned("diversifyRecommendations")
   /\ call.limit = 3
   /\ SharedArtistCase(call.recommendations))
    => /\ Len(ret) >= 3
       /\ ByArtist(ret, call.recommendations[1].artists[1]) <= 2

C15_Witness ==
  /\ Returned("diversifyRecommendations")
  /\ call.limit = 3
  /\ SharedArtistCase(call.recommendations)
  /\ ByArtist(ret, "A") = 2
  /\ ret[3].trackId = "t5"

\* the history holds exactly one upvoted event, and it carries features
OneUpvote(feedbackHistory) ==
  /\ Cardinality({i \in 1..Len(feedbackHistory) : feedbackHistory[i].feedbackScore > 0}) = 1
  /\ \A i \in 1..Len(feedbackHistory) :
       feedbackHistory[i].feedbackScore > 0 => feedbackHistory[i].audioFeatures # EmptyFeatures

\* the upvoted event of such a history
TheUpvote(feedbackHistory) ==
  feedbackHistory[CHOOSE i \in 1..Len(feedbackHistory) : feedbackHistory[i].feedbackScore > 0]

\* C16: with exactly one upvoted event, at features F and of any age, the
\* personal affinity equals the similarity of the candidate to F, whatever
\* the time-decay weight; for a candidate with features F it is 1.0.
C16_SingleUpvoteIgnoresDecay ==
  (Returned("calculatePersonalPreference") /\ OneUpvote(call.userProfile.feedbackHistory))
    => LET F == TheUpvote(call.userProfile.feedbackHistory).audioFeatures
       IN  /\ ret = calculateSimilarity(call.trackFeatures, F, NoWeights)
           /\ (call.trackFeatures = F /\ ValidFeatures(F)) => ret = Scale

C16_Witness ==
  /\ Returned("calculatePersonalPreference")
  /\ OneUpvote(call.userProfile.feedbackHistory)
  /\ TheUpvote(call.userProfile.feedbackHistory).timestamp < call.clock
  /\ TheUpvote(call.userProfile.feedbackHistory).audioFeatures = call.trackFeatures
  /\ ValidFeatures(call.trackFeatures)
  /\ ret = Scale

\* C17: with learningRate = 0 the adjustment returns the base weight, whatever
\* the weight of the past similar context is; applyIndividualLearning builds
\* every field of its result with this function.
C17_ZeroRateKeepsBaseWeight ==
  Returned("adjustWeight") /\ call.learningRate = 0 => ret = call.baseWeight

C17_Witness ==
  /\ Returned("adjustWeight")
  /\ call.learningRate = 0
  /\ call.userPreference # call.baseWeight
  /\ ret = call.baseWeight

C19_NoPatternReturnsBaseWeights ==
  Returned("applyIndividualLearning") =>
    /\ findSimilarContextPattern(call.contextText, call.userProfile) = << >>
    /\ ~IsThrown(ret)
    /\ ret = call.baseWeights

C19_Witness ==
  /\ Returned("applyIndividualLearning")
  /\ Len(call.userProfile.feedbackHistory) > 0
  /\ call.baseWeights # NeutralWeights
  /\ ret = call.baseWeights

\* the candidate of the call a result was computed for
CandidateOf(result) ==
  CHOOSE c \in {call.candidateFeatures[i] : i \in 1..Len(call.candidateFeatures)} :
    c.trackId = result.trackId

\* C20: for a valid target and a valid candidate the confidence
\* max(0, 1 - distance) lies in [0,1], and a candidate with the features of
\* the weighted target gets similarity 1.0 and confidence 1.0.
C20_ConfidenceInUnitInterval ==
  Returned("rankTracksBySimilarity") /\ ValidFeatures(call.targetProfile) =>
    \A i \in 1..Len(ret) :
      LET features == CandidateOf(ret[i]).features
      IN  ValidFeatures(features) =>
            /\ ret[i].confidence \in 0..Scale
            /\ features = featuresOf(call.targetProfile) =>
                 ret[i].similarity = Scale /\ ret[i].confidence = Scale

C20_Witness ==
  /\ Returned("rankTracksBySimilarity")
  /\ ValidFeatures(call.targetProfile)
  /\ Len(ret) = 2
  /\ CandidateOf(ret[1]).features = featuresOf(call.targetProfile)
  /\ ret[1].similarity = Scale /\ ret[1].confidence = Scale
  /\ ValidFeatures(CandidateOf(ret[2]).features)
  /\ ret[2].confidence = 0

\* a feature field the vector does not carry
MissingFields(features) == {f \in DOMAIN normalizeFeatures(features) : features[f] = NaN}

\* C21: a feature field missing in the input vector is normalized to 0, and a
\* vector with missing fields still yields a numeric similarity.
C21_MissingFieldsNormalizeToZero ==
  (/\ Returned("calculateSimilarity")
   /\ ValidFeatures(call.profile1)
   /\ MissingFields(call.profile2) # {})
    => /\ \A f \in MissingFields(call.profile2) : normalizeFeatures(call.profile2)[f] = 0
       /\ ret \in 0..Scale

\* C22: downvotes and skips never change the personal affinity: the score of
\* a history is the score of its positive events alone, and a history
\* without a positive event scores 0.5.
C22_NonPositiveFeedbackIsIgnored ==
  Returned("calculatePersonalPreference") =>
    LET liked == positiveFeedback(call.userProfile.feedbackHistory)
    IN  /\ ret = calculatePersonalPreference(call.trackFeatures, [feedbackHistory |-> liked],
                                             call.clock)
        /\ Len(liked) = 0 => ret = Scale \div 2

C22_Witness ==
  /\ Returned("calculatePersonalPreference")
  /\ Len(call.userProfile.feedbackHistory) = 2
  /\ call.userProfile.feedbackHistory[1].feedbackScore < 0
  /\ call.userProfile.feedbackHistory[1].audioFeatures = call.trackFeatures
  /\ call.userProfile.feedbackHistory[2].feedbackScore > 0
  /\ call.userProfile.feedbackHistory[2].audioFeatures # EmptyFeatures
  /\ ret # Scale \div 2

\* C23: a recommendation request never creates, changes or deletes a feedback
\* record, whether it succeeds or fails: a step that ends with the response
\* of POST /vybes as the last one sent (every request does) leaves the
\* feedback table as it was.
C23_RequestLeavesFeedbackUnchanged ==
  [][response'.route = "vybes" => feedback' = feedback]_vars

\* a request answered 201 while the listener has feedback on record
C23_Witness ==
  /\ response.route = "vybes"
  /\ response.status = 201
  /\ \E i \in 1..Len(feedback) : feedback[i].userId = response.userId

\* the candidate of the ranking call a recommendation was scored for
RankedCandidateOf(rec) ==
  CHOOSE c \in {call.candidates[i] : i \in 1..Len(call.candidates)} : c.trackId = rec.trackId

\* C24: for every ranked candidate blendedScore is 0.7 * similarity + 0.3 *
\* personalAffinity (in thousandths), and lies in [0,1] whenever both do.
C24_BlendedScoreIsTheWeightedSum ==
  Returned("rankByIndividualPreference") =>
    \A i \in 1..Len(ret) :
      LET features == RankedCandidateOf(ret[i]).features
          similarity == calculateSimilarity(call.weightedProfile, features,
                                            call.weightedProfile.weights)
          personalAffinity == calculatePersonalPreference(features, call.userProfile, call.clock)
      IN  /\ ret[i].confidence = Add(Mul(similarity, 7), Mul(personalAffinity, 3))
          /\ (similarity \in 0..Scale /\ personalAffinity \in 0..Scale)
               => ret[i].confidence \in 0..(10 * Scale)

C24_Witness ==
  /\ Returned("rankByIndividualPreference")
  /\ Len(ret) = 2
  /\ ret[1].reasoning.similarity \in 0..Scale
  /\ ret[1].reasoning.personalPreference \in 0..Scale
  /\ ret[1].reasoning.similarity # ret[1].reasoning.personalPreference
  /\ ret[1].confidence = 7 * ret[1].reasoning.similarity + 3 * ret[1].reasoning.personalPreference
  /\ ret[2].confidence < ret[1].confidence

\* the items of the first pass selected before position i of the ranked list
SelectedBefore(recommendations, selection, i) ==
  SelectSeq(selection, LAMBDA d : PositionIn(recommendations, d.trackId) < i)

\* the two reasons to skip a candidate, given the items selected so far
SkipByArtist(rec, selected, limit) ==
  LET artists == {mainArtistOf(selected[k]) : k \in 1..Len(selected)} \ {""}
  IN  mainArtistOf(rec) \in artists /\ 2 * Cardinality(artists) < limit

SkipBySimilarity(rec, selected) ==
  \E k \in 1..Len(selected) :
    LET similarity == calculateSimilarity(rec.audioFeatures, selected[k].audioFeatures, NoWeights)
    IN  similarity # NaN /\ similarity > 85

\* C25: in the first pass a candidate is skipped exactly when (a) its primary
\* artist is already selected and fewer than limit/2 artists are selected, or
\* (b) its unweighted similarity to a selected candidate exceeds 0.85; when
\* the first pass alone fills the list, no two returned candidates have
\* similarity above 0.85.
C25_FirstPassSkipsExactlyAsStated ==
  Returned("diversifyRecommendations") =>
    LET recommendations == call.recommendations
        selection == firstPass(recommendations, call.limit, 1, << >>, {})
    IN  /\ \A i \in 1..Len(recommendations) :
             LET selected == SelectedBefore(recommendations, selection, i)
                 chosen == \E k \in 1..Len(selection) :
                             selection[k].trackId = recommendations[i].trackId
             IN  Len(selected) < call.limit =>
                   (chosen <=> ~(\/ SkipByArtist(recommendations[i], selected, call.limit)
                                 \/ SkipBySimilarity(recommendations[i], selected)))
        /\ Len(selection) >= call.limit =>
             /\ ret = selection
             /\ \A i, j \in 1..Len(ret) :
                  i # j => ~SkipBySimilarity(ret[i], << ret[j] >>)

\* the second candidate is skipped for its similarity to the first, the third
\* is taken, and the first pass fills the list
C25_Witness ==
  /\ Returned("diversifyRecommendations")
  /\ call.limit = 2
  /\ Len(call.recommendations) = 3
  /\ SkipBySimilarity(call.recommendations[2], << call.recommendations[1] >>)
  /\ ~SkipByArtist(call.recommendations[2], << call.recommendations[1] >>, call.limit)
  /\ Len(ret) = 2
  /\ ret[2].trackId = "t3"

\* C26: when context weights are supplied, the weight used for valence,
\* energy, danceability and acousticness is the supplied weight, for every
\* value in [0,1], 0 included.
C26_SuppliedWeightsAreUsed ==
  (Returned("calculateSimilarity") /\ call.contextWeights # NoWeights) =>
    \A f \in {"valence", "energy", "danceability", "acousticness"} :
      featureWeights(call.contextWeights)[f] = call.contextWeights[f]

\* clamp(value * (1 + weight * 0.5), 0, 1) for numbers in tenths
WeightedValue(value, weight) ==
  LET raised == (value * (2 * Unit + weight)) \div (2 * Unit)
  IN  IF raised > Unit THEN Unit ELSE IF raised < 0 THEN 0 ELSE raised

\* C27: applyWeights sets valence, energy, danceability and acousticness to
\* clamp(value * (1 + weight * 0.5), 0, 1), each in [0,1], sets tempo to
\* tempo * tempoModifier, and leaves the other seven fields as in the profile.
C27_ApplyWeightsFrame ==
  Returned("applyContextWeights") =>
    /\ \A f \in {"valence", "energy", "danceability", "acousticness"} :
         /\ ret[f] = WeightedValue(call.profile[f], call.contextWeights[f])
         /\ ret[f] \in 0..Unit
    /\ ret.tempo = (call.profile.tempo * call.contextWeights.tempoModifier) \div Unit
    /\ \A f \in {"instrumentalness", "liveness", "speechiness", "loudness", "mode", "key",
                 "timeSignature"} : ret[f] = call.profile[f]
    /\ ret.weights = call.contextWeights

C27_Witness ==
  /\ Returned("applyContextWeights")
  /\ call.profile.valence = 8
  /\ call.contextWeights.valence = Unit
  /\ ret.valence = Unit
  /\ call.profile.danceability = 8
  /\ call.contextWeights.danceability = 0
  /\ ret.danceability = 8
  /\ call.profile.tempo = 120
  /\ ret.tempo = 240

\* the number of the user's requests let through in the user's present window
PassedInWindow(userId) ==
  IF userId \notin DOMAIN passed \/ userId \notin DOMAIN requestCounts THEN 0
  ELSE Cardinality({i \in 1..Len(passed[userId]) :
                      /\ passed[userId][i] >= requestCounts[userId].resetTime - limiter.windowMs
                      /\ passed[userId][i] <= requestCounts[userId].resetTime})

QuotaRespected ==
  \A userId \in Listeners :
    /\ PassedInWindow(userId) <= limiter.maxRequests
    /\ userId \in DOMAIN passed => PassedInWindow(userId) = Len(passed[userId])

\* what one request of userId does to the limiter
LimiterStepAsClaimed(userId) ==
  LimitedRequest(userId) =>
    /\ \A other \in DOMAIN requestCounts \ {userId} :
         other \in DOMAIN requestCounts' /\ requestCounts'[other] = requestCounts[other]
    /\ DOMAIN requestCounts' \subseteq DOMAIN requestCounts \cup {userId}
    /\ outcome'.status = 429 => requestCounts' = requestCounts /\ ~outcome'.next
    /\ (userId \in DOMAIN requestCounts /\ now <= requestCounts[userId].resetTime) =>
         /\ requestCounts'[userId].resetTime = requestCounts[userId].resetTime
         /\ PassedInWindow(userId) >= limiter.maxRequests => outcome'.status = 429

\* C28: in every window at most maxRequests of a user's requests are let
\* through; further requests in the window are answered 429 and change neither
\* the count nor the window end; a new window starts only after the reset
\* time has passed; a request changes no other user's entry.
C28_RateLimitPerUserWindow ==
  [][QuotaRespected' /\ \A userId \in Listeners : LimiterStepAsClaimed(userId)]_vars

\* u1 used up the quota and was refused while u2 was still let through
C28_Witness ==
  /\ limiter.maxRequests = 2
  /\ PassedInWindow("u1") = 2
  /\ outcome = [userId |-> "u1", next |-> FALSE, status |-> 429]
  /\ PassedInWindow("u2") = 1
  /\ now <= requestCounts["u1"].resetTime
  /\ requestCounts["u1"].resetTime > limiter.windowMs + 1

\* the searches of the call that did not fail
Succeeded(searchResults) ==
  SelectSeq(searchResults, LAMBDA r : ~r.throws /\ ~r.featuresThrow)

\* the ids a sequence holds
Elements(s) == {s[i] : i \in 1..Len(s)}

\* C29: the candidates handed to the ranker have pairwise distinct trackIds,
\* none of them excluded, whatever the searches return; a failing search is
\* skipped and the others still contribute.
C29_CandidatesDistinctAndNotExcluded ==
  Returned("findCandidateTracks") =>
    /\ \A i, j \in 1..Len(ret) : ret[i].trackId = ret[j].trackId => i = j
    /\ TrackIdsOf(ret) \cap Elements(call.excludeTrackIds) = {}
    /\ TrackIdsOf(ret)
         = (UNION {Elements(r.items) : r \in Elements(Succeeded(call.searchResults))}
              \cap DOMAIN CatalogFeatures) \ Elements(call.excludeTrackIds)
    /\ ret = findCandidateTracks(CatalogFeatures, Succeeded(call.searchResults),
                                 call.excludeTrackIds)

\* the first search fails, the second returns a track twice and an excluded one
C29_Witness ==
  /\ Returned("findCandidateTracks")
  /\ Len(call.searchResults) = 2
  /\ call.searchResults[1].throws
  /\ call.searchResults[2].items = << "t2", "t2" >>
  /\ ~call.searchResults[2].featuresThrow
  /\ call.excludeTrackIds = << "t1" >>
  /\ TrackIdsOf(ret) = {"t2"}
  /\ Len(ret) = 1

\* C30: the cache is keyed on the raw text: the analysis behind an answer was
\* interpreted, now or when it was stored, for exactly the text of the
\* request; two different texts never share a cached result.
C30_CachedAnalysisIsForTheSameText ==
  (response.route = "vybes" /\ response.status = 201) =>
    response.contextAnalysis.interpretedFor.prompt.contextText = response.data.context

====
